---------------------------- MODULE Spec2Model ----------------------------
(***************************************************************************)
(* Model of the Vector and Matrix value types of the LinAlg front end      *)
(* (src/src/app/domain/vector/vector.ts, src/src/app/domain/matrix/        *)
(* matrix.ts).                                                             *)
(*                                                                         *)
(* A JavaScript number[] is a sequence of cells; a cell is a number, the   *)
(* value undefined, NaN, or an empty slot (a hole left by new Array(n)).   *)
(* Indices of the source are 0-based, sequences here are 1-based.          *)
(* Numbers are integers: rounding of floating point is not modelled.       *)
(*                                                                         *)
(* The state is what a caller of the two classes can hold: the number[]    *)
(* and number[][] objects that exist (by address, so that two references   *)
(* to one object are visible), which of them the caller holds, which are   *)
(* the private storage of a Vector or Matrix instance, and the outcome of  *)
(* the last call.                                                          *)
(***************************************************************************)
EXTENDS Integers, Sequences, FiniteSets, TLC

VARIABLES
    arrays,        \* heap of number[] objects: arrays[a] is the content at address a
    grids,         \* heap of number[][] objects: grids[g] is a sequence of rows
    callerArrays,  \* addresses of the number[] objects the caller holds
    callerGrids,   \* addresses of the number[][] objects the caller holds
    vectors,       \* addresses a for which a Vector with _vector = arrays[a] exists
    matrices,      \* addresses g for which a Matrix with _matrix = grids[g] exists
    ret,           \* record of the last call and its outcome
    budget         \* calls the caller may still make

vars == <<arrays, grids, callerArrays, callerGrids, vectors, matrices, ret, budget>>

---------------------------------------------------------------------------
(* Bounds of the model *)

\* longest array literal / largest size argument
MaxDim == 3
\* array literals hold numbers 0..MaxValue
MaxValue == 1
\* scalar arguments range over -1..MaxScalar
MaxScalar == 2
\* calls per run of the vector specification
MaxCalls == 3
\* calls per run after the two operands are built
MaxProductCalls == 1
\* most rows of a number[][] literal / largest row count argument
MaxRows == 2
\* longest row of a number[][] literal / largest column count argument
MaxCols == 2
\* longest values / indices argument of setMultiple
MaxUpdates == 2
\* calls per run of the matrix specification
MaxMatrixCalls == 2
\* calls per run of the identity specification
MaxIdentityCalls == 3
\* calls per run of the copy-on-construct specification
MaxCopyCalls == 3

Values == 0..MaxValue
Scalars == -1..MaxScalar
Sizes == 0..MaxDim
Indices == -1..MaxDim

Min(S) == CHOOSE x \in S : \A y \in S : x <= y

---------------------------------------------------------------------------
(* JavaScript values and arrays *)

Num(n) == [t |-> "number", v |-> n]
Undefined == [t |-> "undefined", v |-> 0]
NaN == [t |-> "NaN", v |-> 0]
Empty == [t |-> "empty", v |-> 0]

Ok(val) == [threw |-> "", val |-> val]
Throw(e) == [threw |-> e, val |-> <<>>]

\* x + y, x * y, x - y on cells read from an array
JsPlus(x, y) == IF x.t = "number" /\ y.t = "number" THEN Num(x.v + y.v) ELSE NaN
JsTimes(x, y) == IF x.t = "number" /\ y.t = "number" THEN Num(x.v * y.v) ELSE NaN
JsMinus(x, y) == IF x.t = "number" /\ y.t = "number" THEN Num(x.v - y.v) ELSE NaN

\* arr[i]: a hole or an index outside the array reads as undefined
Load(arr, i) ==
    IF i >= 0 /\ i < Len(arr) /\ arr[i + 1] # Empty THEN arr[i + 1] ELSE Undefined

\* arr[i] = c, for i >= 0: the array grows, leaving holes, when i >= length
Store(arr, i, c) ==
    [k \in 1..(IF i + 1 > Len(arr) THEN i + 1 ELSE Len(arr)) |->
        IF k = i + 1 THEN c ELSE IF k <= Len(arr) THEN arr[k] ELSE Empty]

\* ...arr: the iterator yields undefined for a hole
Spread(arr) == [k \in 1..Len(arr) |-> IF arr[k] = Empty THEN Undefined ELSE arr[k]]

\* new Array(a0, a1, ...): ONE numeric argument is a length, not an element
NewArray(args) ==
    IF Len(args) = 1
    THEN IF args[1].t = "number"
         THEN IF args[1].v >= 0
              THEN Ok([k \in 1..args[1].v |-> Empty])
              ELSE Throw("RangeError")
         ELSE IF args[1].t = "NaN" THEN Throw("RangeError") ELSE Ok(args)
    ELSE Ok(args)

\* new Array(n).fill(c)
NewFilled(n, c) == IF n < 0 THEN Throw("RangeError") ELSE Ok([k \in 1..n |-> c])

\* array literals the caller can write
RECURSIVE SeqsOf(_, _)
SeqsOf(S, n) ==
    IF n = 0 THEN {<<>>}
    ELSE LET shorter == SeqsOf(S, n - 1)
         IN shorter \cup {Append(s, x) : s \in {t \in shorter : Len(t) = n - 1}, x \in S}

ArrayLiterals == {[k \in 1..Len(s) |-> Num(s[k])] : s \in SeqsOf(Values, MaxDim)}

RowCounts == 0..MaxRows
ColCounts == 0..MaxCols
RowIndices == -1..MaxRows
ColIndices == -1..MaxCols
RowLiterals == {[k \in 1..Len(s) |-> Num(s[k])] : s \in SeqsOf(Values, MaxCols)}
GridLiterals == SeqsOf(RowLiterals, MaxRows)
ValueLists == {[k \in 1..Len(s) |-> Num(s[k])] : s \in SeqsOf(Values, MaxUpdates)}
IndexLists == SeqsOf(RowCounts \X ColCounts, MaxUpdates)

---------------------------------------------------------------------------
(* class Vector: every operator takes the content of _vector *)

\* constructor(size, value = 0), typeof arg0 == 'number'
VectorFromSize(size, value) == NewFilled(size, value)

Vector_dimension(v) == Len(v)

Vector_checkBounds(v, index) ==
    IF index >= Vector_dimension(v) \/ index < 0
    THEN Throw("Index out of bounds!") ELSE Ok(<<>>)

Vector_checkDimensions(v, vector) ==
    IF Vector_dimension(vector) # Vector_dimension(v)
    THEN Throw("Both vectors must have the same dimension!") ELSE Ok(<<>>)

Vector_assertVectorProductDefined(v, vector) ==
    IF Vector_dimension(vector) # 3 \/ Vector_dimension(v) # 3
    THEN Throw("Both vectors must have 3 dimensions!") ELSE Ok(<<>>)

Vector_toArray(v) == NewArray(Spread(v))

\* constructor(vector), arg0 instanceof Vector
VectorFromVector(v) == Vector_toArray(v)

Vector_getAt(v, index) ==
    IF Vector_checkBounds(v, index).threw # ""
    THEN Vector_checkBounds(v, index)
    ELSE Ok(Load(v, index))

Vector_setAt(v, x, index) ==
    IF Vector_checkBounds(v, index).threw # ""
    THEN Vector_checkBounds(v, index)
    ELSE LET arr == NewArray(Spread(v))
         IN IF arr.threw # "" THEN arr ELSE Ok(Store(arr.val, index, x))

\* this._vector.map(f): f[i] is the outcome of the callback on element i.
\* Array.prototype.map skips holes and keeps them; the first throw of f ends it
Vector_map(v, f) ==
    LET bad == {i \in 0..(Len(v) - 1) : v[i + 1] # Empty /\ f[i].threw # ""}
    IN IF bad # {}
       THEN Throw(f[Min(bad)].threw)
       ELSE Ok([k \in 1..Len(v) |-> IF v[k] = Empty THEN Empty ELSE f[k - 1].val])

\* map((x, i) => x + vector.getAt(i))
Vector_add(v, vector) ==
    Vector_map(v, [i \in 0..(Len(v) - 1) |->
        IF Vector_getAt(vector, i).threw # ""
        THEN Vector_getAt(vector, i)
        ELSE Ok(JsPlus(v[i + 1], Vector_getAt(vector, i).val))])

\* map(x => x * scalar)
Vector_multiply(v, scalar) ==
    Vector_map(v, [i \in 0..(Len(v) - 1) |-> Ok(JsTimes(v[i + 1], scalar))])

RECURSIVE ScalarProductLoop(_, _, _, _)
ScalarProductLoop(v, vector, i, sum) ==
    IF i < Vector_dimension(v)
    THEN ScalarProductLoop(v, vector, i + 1,
            JsPlus(sum, JsTimes(Vector_getAt(vector, i).val, Vector_getAt(v, i).val)))
    ELSE sum

Vector_scalarProduct(v, vector) ==
    IF Vector_checkDimensions(v, vector).threw # ""
    THEN Vector_checkDimensions(v, vector)
    ELSE Ok(ScalarProductLoop(v, vector, 0, Num(0)))

\* the textbook cross product: the middle component negated
Vector_vectorProduct_textbook(v, vector) ==
    IF Vector_assertVectorProductDefined(v, vector).threw # ""
    THEN Vector_assertVectorProductDefined(v, vector)
    ELSE LET x == JsMinus(JsTimes(Vector_getAt(v, 1).val, Vector_getAt(vector, 2).val),
                          JsTimes(Vector_getAt(v, 2).val, Vector_getAt(vector, 1).val))
             y == JsMinus(JsTimes(Vector_getAt(v, 2).val, Vector_getAt(vector, 0).val),
                          JsTimes(Vector_getAt(v, 0).val, Vector_getAt(vector, 2).val))
             z == JsMinus(JsTimes(Vector_getAt(v, 0).val, Vector_getAt(vector, 1).val),
                          JsTimes(Vector_getAt(v, 1).val, Vector_getAt(vector, 0).val))
         IN Ok(<<x, y, z>>)

Vector_vectorProduct(v, vector) ==
    IF Vector_assertVectorProductDefined(v, vector).threw # ""
    THEN Vector_assertVectorProductDefined(v, vector)
    ELSE LET x == JsMinus(JsTimes(Vector_getAt(v, 1).val, Vector_getAt(vector, 2).val),
                          JsTimes(Vector_getAt(v, 2).val, Vector_getAt(vector, 1).val))
             y == JsMinus(JsTimes(Vector_getAt(v, 0).val, Vector_getAt(vector, 2).val),
                          JsTimes(Vector_getAt(v, 2).val, Vector_getAt(vector, 0).val))
             z == JsMinus(JsTimes(Vector_getAt(v, 0).val, Vector_getAt(vector, 1).val),
                          JsTimes(Vector_getAt(v, 1).val, Vector_getAt(vector, 0).val))
         IN Ok(<<x, y, z>>)

---------------------------------------------------------------------------
(* class Matrix: every operator takes the content of _matrix *)

Matrix_assertValidity(array2d) ==
    IF Len(array2d) = 0
    THEN Throw("TypeError")     \* array2d[0] is undefined: reading .length throws
    ELSE IF \A k \in 1..Len(array2d) : Len(array2d[k]) = Len(array2d[1])
         THEN Ok(<<>>)
         ELSE Throw("All Matrix rows must have same size!")

\* constructor(matrix: number[][]), arg0 instanceof Array
MatrixFromArray(array2d) ==
    IF Matrix_assertValidity(array2d).threw # ""
    THEN Matrix_assertValidity(array2d)
    ELSE Ok(array2d)

\* constructor(n, value) and constructor(n, m, value); an argument not given is undefined
MatrixFromSize(arg0, arg1, arg2) ==
    LET n == arg0
        m == IF arg2 = Undefined THEN n ELSE arg1
        fillValue == IF arg2 = Undefined THEN Num(0) ELSE arg2
        outer == NewArray(<<n>>)
        row == NewArray(<<m>>)
    IN IF outer.threw # "" THEN outer
       ELSE IF Len(outer.val) > 0 /\ row.threw # "" THEN row
       ELSE Ok([k \in 1..Len(outer.val) |-> [c \in 1..Len(row.val) |-> fillValue]])

Matrix_n(g) == Len(g)

\* this._matrix[0].length
Matrix_m(g) == IF Len(g) = 0 THEN Throw("TypeError") ELSE Ok(Len(g[1]))

Matrix_to2dArray(g) ==
    LET rows == [k \in 1..Len(g) |-> NewArray(Spread(g[k]))]
        bad == {k \in 1..Len(g) : rows[k].threw # ""}
    IN IF bad # {} THEN Throw(rows[Min(bad)].threw)
       ELSE Ok([k \in 1..Len(g) |-> rows[k].val])

\* constructor(matrix: Matrix)
MatrixFromMatrix(g) == Matrix_to2dArray(g)

\* constructor(vector: Vector): [arg0.toArray()]
MatrixFromVector(v) ==
    IF Vector_toArray(v).threw # "" THEN Vector_toArray(v)
    ELSE Ok(<<Vector_toArray(v).val>>)

\* || evaluates left to right: this.m is read only when 0 <= i < this.n
Matrix_checkBounds(g, i, j) ==
    IF i < 0 \/ j < 0 \/ i >= Matrix_n(g) \/ j >= Matrix_m(g).val
    THEN Throw("Index out of bounds!") ELSE Ok(<<>>)

Matrix_checkDimensions(g, matrix) ==
    IF Matrix_n(g) # Matrix_n(matrix)
    THEN Throw("Matrices must have same dimensions!")
    ELSE IF Matrix_m(g).threw # "" THEN Matrix_m(g)
    ELSE IF Matrix_m(g).val # Matrix_m(matrix).val
         THEN Throw("Matrices must have same dimensions!")
         ELSE Ok(<<>>)

Matrix_getAt(g, i, j) ==
    IF Matrix_checkBounds(g, i, j).threw # ""
    THEN Matrix_checkBounds(g, i, j)
    ELSE Ok(Load(g[i + 1], j))

Matrix_setAt(g, x, i, j) ==
    IF Matrix_checkBounds(g, i, j).threw # ""
    THEN Matrix_checkBounds(g, i, j)
    ELSE LET arr == Matrix_to2dArray(g)
         IN IF arr.threw # "" THEN arr
            ELSE MatrixFromArray([arr.val EXCEPT ![i + 1] = Store(@, j, x)])

\* values.forEach((value, index) => { const [i, j] = indices[index]; arr[i][j] = value })
RECURSIVE SetMultipleLoop(_, _, _, _)
SetMultipleLoop(arr, values, indices, index) ==
    IF index >= Len(values) THEN Ok(arr)
    ELSE IF index >= Len(indices)
         THEN Throw("TypeError")     \* indices[index] is undefined: not iterable
         ELSE SetMultipleLoop(
                [arr EXCEPT ![indices[index + 1][1] + 1] =
                    Store(@, indices[index + 1][2], values[index + 1])],
                values, indices, index + 1)

Matrix_setMultiple(g, values, indices) ==
    IF \E k \in 1..Len(indices) :
          Matrix_checkBounds(g, indices[k][1], indices[k][2]).threw # ""
    THEN Throw("Index out of bounds!")
    ELSE LET arr == Matrix_to2dArray(g)
         IN IF arr.threw # "" THEN arr
            ELSE LET set == SetMultipleLoop(arr.val, values, indices, 0)
                 IN IF set.threw # "" THEN set ELSE MatrixFromArray(set.val)

Matrix_identity(n) ==
    LET m == MatrixFromSize(Num(n), Num(0), Undefined)
        ones == NewFilled(n, Num(1))
        indices == [i \in 1..n |-> <<i - 1, i - 1>>]
    IN IF m.threw # "" THEN m
       ELSE Matrix_setMultiple(m.val, ones.val, indices)

\* row.map skips the holes of a row; the first throw of getAt ends the call
Matrix_add(g, matrix) ==
    IF Matrix_checkDimensions(g, matrix).threw # ""
    THEN Matrix_checkDimensions(g, matrix)
    ELSE IF \E i \in 1..Len(g) : \E j \in 1..Len(g[i]) :
               g[i][j] # Empty /\ Matrix_getAt(matrix, i - 1, j - 1).threw # ""
         THEN Throw("Index out of bounds!")
         ELSE MatrixFromArray(
                [i \in 1..Len(g) |-> [j \in 1..Len(g[i]) |->
                    IF g[i][j] = Empty THEN Empty
                    ELSE JsPlus(g[i][j], Matrix_getAt(matrix, i - 1, j - 1).val)]])

Matrix_multiply(g, scalar) ==
    MatrixFromArray(
        [i \in 1..Len(g) |-> [j \in 1..Len(g[i]) |->
            IF g[i][j] = Empty THEN Empty ELSE JsTimes(g[i][j], scalar)]])

\* for (k = 0; k < this.m; k++) m[i][j] += this.getAt(i, k) * matrix.getAt(k, j)
RECURSIVE MultiplicationLoop(_, _, _, _, _, _)
MultiplicationLoop(g, matrix, i, j, k, sum) ==
    IF k < Matrix_m(g).val
    THEN MultiplicationLoop(g, matrix, i, j, k + 1,
            JsPlus(sum, JsTimes(Matrix_getAt(g, i, k).val, Matrix_getAt(matrix, k, j).val)))
    ELSE sum

Matrix_matrixMultiplication(g, matrix) ==
    IF Matrix_n(g) = 0
    THEN MatrixFromArray(<<>>)     \* no row is built, no loop body runs
    ELSE IF Matrix_m(matrix).threw # "" THEN Matrix_m(matrix)
    ELSE IF \E i \in 0..(Matrix_n(g) - 1) : \E j \in 0..(Matrix_m(matrix).val - 1) :
               \E k \in 0..(Matrix_m(g).val - 1) :
                   \/ Matrix_getAt(g, i, k).threw # ""
                   \/ Matrix_getAt(matrix, k, j).threw # ""
         THEN Throw("Index out of bounds!")
         ELSE MatrixFromArray(
                [i \in 1..Matrix_n(g) |-> [j \in 1..Matrix_m(matrix).val |->
                    MultiplicationLoop(g, matrix, i - 1, j - 1, 0, Num(0))]])

\* matrix[j][i] = x for every element x that is not a hole; matrix has this.m rows
Matrix_transpose(g) ==
    IF Matrix_m(g).threw # "" THEN Matrix_m(g)
    ELSE IF \E i \in 1..Len(g) : \E j \in 1..Len(g[i]) :
               g[i][j] # Empty /\ j > Matrix_m(g).val
         THEN Throw("TypeError")     \* matrix[j] is undefined
         ELSE MatrixFromArray(
                [j \in 1..Matrix_m(g).val |-> [i \in 1..Matrix_n(g) |->
                    IF j <= Len(g[i]) THEN g[i][j] ELSE Empty]])

---------------------------------------------------------------------------
(* The record of a call *)

NoCall ==
    [op |-> "", threw |-> "", self |-> 0, other |-> 0, out |-> 0,
     value |-> Undefined, x |-> Undefined, i |-> 0, j |-> 0,
     values |-> <<>>, indices |-> <<>>, arrays0 |-> <<>>, grids0 |-> <<>>]

Call(op) == [NoCall EXCEPT !.op = op, !.arrays0 = arrays, !.grids0 = grids]

\* the call returns a new Vector whose _vector is the fresh array r.val
ReturnsVector(call, r) ==
    /\ budget > 0
    /\ budget' = budget - 1
    /\ IF r.threw # ""
       THEN /\ ret' = [call EXCEPT !.threw = r.threw]
            /\ UNCHANGED <<arrays, vectors>>
       ELSE /\ arrays' = Append(arrays, r.val)
            /\ vectors' = vectors \cup {Len(arrays) + 1}
            /\ ret' = [call EXCEPT !.out = Len(arrays) + 1]
    /\ UNCHANGED <<grids, callerArrays, callerGrids, matrices>>

\* the call returns a number (or throws)
ReturnsValue(call, r) ==
    /\ budget > 0
    /\ budget' = budget - 1
    /\ ret' = IF r.threw # "" THEN [call EXCEPT !.threw = r.threw]
              ELSE [call EXCEPT !.value = r.val]
    /\ UNCHANGED <<arrays, grids, callerArrays, callerGrids, vectors, matrices>>

---------------------------------------------------------------------------
(* Calls on Vector *)

\* new Vector(size) and new Vector(size, value)
NewVectorOfSize(size, value) ==
    ReturnsVector([Call("Vector(size,value)") EXCEPT !.i = size, !.x = value],
                  VectorFromSize(size, value))

\* new Vector(v)
NewVectorOfVector(v) ==
    ReturnsVector([Call("Vector(vector)") EXCEPT !.self = v],
                  VectorFromVector(arrays[v]))

\* const elements = [...]; new Vector(elements): this._vector = arg0
NewVectorOfLiteral(elements) ==
    /\ budget > 0
    /\ budget' = budget - 1
    /\ arrays' = Append(arrays, elements)
    /\ callerArrays' = callerArrays \cup {Len(arrays) + 1}
    /\ vectors' = vectors \cup {Len(arrays) + 1}
    /\ ret' = [Call("Vector(elements)") EXCEPT !.self = Len(arrays) + 1,
                                                !.out = Len(arrays) + 1]
    /\ UNCHANGED <<grids, callerGrids, matrices>>

\* new Vector(elements) on an array the caller already holds
NewVectorOfArray(a) ==
    /\ budget > 0
    /\ budget' = budget - 1
    /\ vectors' = vectors \cup {a}
    /\ ret' = [Call("Vector(elements)") EXCEPT !.self = a, !.out = a]
    /\ UNCHANGED <<arrays, grids, callerArrays, callerGrids, matrices>>

\* elements[i] = x by the caller, on an array it holds
CallerWrite(a, i, x) ==
    /\ budget > 0
    /\ budget' = budget - 1
    /\ arrays' = [arrays EXCEPT ![a] = Store(arrays[a], i, x)]
    /\ ret' = [Call("elements[i]=x") EXCEPT !.self = a, !.i = i, !.x = x]
    /\ UNCHANGED <<grids, callerArrays, callerGrids, vectors, matrices>>

\* v.toArray(): the caller receives the returned array
CallToArray(v) ==
    /\ budget > 0
    /\ budget' = budget - 1
    /\ LET r == Vector_toArray(arrays[v])
           call == [Call("toArray") EXCEPT !.self = v]
       IN IF r.threw # ""
          THEN /\ ret' = [call EXCEPT !.threw = r.threw]
               /\ UNCHANGED <<arrays, callerArrays>>
          ELSE /\ arrays' = Append(arrays, r.val)
               /\ callerArrays' = callerArrays \cup {Len(arrays) + 1}
               /\ ret' = [call EXCEPT !.out = Len(arrays) + 1]
    /\ UNCHANGED <<grids, callerGrids, vectors, matrices>>

CallGetAt(v, index) ==
    ReturnsValue([Call("getAt") EXCEPT !.self = v, !.i = index],
                 Vector_getAt(arrays[v], index))

CallSetAt(v, x, index) ==
    ReturnsVector([Call("setAt") EXCEPT !.self = v, !.x = x, !.i = index],
                  Vector_setAt(arrays[v], x, index))

CallAdd(v, vector) ==
    ReturnsVector([Call("add") EXCEPT !.self = v, !.other = vector],
                  Vector_add(arrays[v], arrays[vector]))

CallMultiply(v, scalar) ==
    ReturnsVector([Call("multiply") EXCEPT !.self = v, !.x = scalar],
                  Vector_multiply(arrays[v], scalar))

CallScalarProduct(v, vector) ==
    ReturnsValue([Call("scalarProduct") EXCEPT !.self = v, !.other = vector],
                 Vector_scalarProduct(arrays[v], arrays[vector]))

CallVectorProduct(v, vector) ==
    ReturnsVector([Call("vectorProduct") EXCEPT !.self = v, !.other = vector],
                  Vector_vectorProduct(arrays[v], arrays[vector]))

---------------------------------------------------------------------------
(* Calls on Matrix *)

\* the call returns a new Matrix whose _matrix is the fresh 2D array r.val
ReturnsMatrix(call, r) ==
    /\ budget > 0
    /\ budget' = budget - 1
    /\ IF r.threw # ""
       THEN /\ ret' = [call EXCEPT !.threw = r.threw]
            /\ UNCHANGED <<grids, matrices>>
       ELSE /\ grids' = Append(grids, r.val)
            /\ matrices' = matrices \cup {Len(grids) + 1}
            /\ ret' = [call EXCEPT !.out = Len(grids) + 1]
    /\ UNCHANGED <<arrays, callerArrays, callerGrids, vectors>>

\* new Matrix(n, value)
NewMatrixSquare(n, value) ==
    ReturnsMatrix([Call("Matrix(n,value)") EXCEPT !.i = n, !.x = value],
                  MatrixFromSize(Num(n), value, Undefined))

\* new Matrix(n, m, value)
NewMatrixOfSize(n, m, value) ==
    ReturnsMatrix([Call("Matrix(n,m,value)") EXCEPT !.i = n, !.j = m, !.x = value],
                  MatrixFromSize(Num(n), Num(m), value))

\* new Matrix(matrix)
NewMatrixOfMatrix(g) ==
    ReturnsMatrix([Call("Matrix(matrix)") EXCEPT !.self = g],
                  MatrixFromMatrix(grids[g]))

\* new Matrix(vector)
NewMatrixOfVector(v) ==
    ReturnsMatrix([Call("Matrix(vector)") EXCEPT !.self = v],
                  MatrixFromVector(arrays[v]))

\* const rows = [[...], ...]; new Matrix(rows): this._matrix = arg0 when rows is valid
NewMatrixOfLiteral(rows) ==
    /\ budget > 0
    /\ budget' = budget - 1
    /\ grids' = Append(grids, rows)
    /\ callerGrids' = callerGrids \cup {Len(grids) + 1}
    /\ LET r == MatrixFromArray(rows)
           call == [Call("Matrix(rows)") EXCEPT !.self = Len(grids) + 1]
       IN IF r.threw # ""
          THEN /\ ret' = [call EXCEPT !.threw = r.threw]
               /\ UNCHANGED matrices
          ELSE /\ matrices' = matrices \cup {Len(grids) + 1}
               /\ ret' = [call EXCEPT !.out = Len(grids) + 1]
    /\ UNCHANGED <<arrays, callerArrays, vectors>>

\* rows[i][j] = x by the caller, on a 2D array it holds
CallerWriteRow(g, i, j, x) ==
    /\ budget > 0
    /\ budget' = budget - 1
    /\ i < Len(grids[g])
    /\ grids' = [grids EXCEPT ![g][i + 1] = Store(@, j, x)]
    /\ ret' = [Call("rows[i][j]=x") EXCEPT !.self = g, !.i = i, !.j = j, !.x = x]
    /\ UNCHANGED <<arrays, callerArrays, callerGrids, vectors, matrices>>

CallIdentity(n) ==
    ReturnsMatrix([Call("identity") EXCEPT !.i = n], Matrix_identity(n))

CallMatrixGetAt(g, i, j) ==
    ReturnsValue([Call("Matrix.getAt") EXCEPT !.self = g, !.i = i, !.j = j],
                 Matrix_getAt(grids[g], i, j))

CallMatrixSetAt(g, x, i, j) ==
    ReturnsMatrix([Call("Matrix.setAt") EXCEPT !.self = g, !.x = x, !.i = i, !.j = j],
                  Matrix_setAt(grids[g], x, i, j))

CallSetMultiple(g, values, indices) ==
    ReturnsMatrix([Call("setMultiple") EXCEPT !.self = g, !.values = values,
                                              !.indices = indices],
                  Matrix_setMultiple(grids[g], values, indices))

CallMatrixAdd(g, matrix) ==
    ReturnsMatrix([Call("Matrix.add") EXCEPT !.self = g, !.other = matrix],
                  Matrix_add(grids[g], grids[matrix]))

CallMatrixMultiply(g, scalar) ==
    ReturnsMatrix([Call("Matrix.multiply") EXCEPT !.self = g, !.x = scalar],
                  Matrix_multiply(grids[g], scalar))

CallMatrixMultiplication(g, matrix) ==
    ReturnsMatrix([Call("matrixMultiplication") EXCEPT !.self = g, !.other = matrix],
                  Matrix_matrixMultiplication(grids[g], grids[matrix]))

CallTranspose(g) ==
    ReturnsMatrix([Call("transpose") EXCEPT !.self = g], Matrix_transpose(grids[g]))

---------------------------------------------------------------------------
(* Specifications *)

NothingConstructed ==
    /\ arrays = <<>>
    /\ grids = <<>>
    /\ callerArrays = {}
    /\ callerGrids = {}
    /\ vectors = {}
    /\ matrices = {}
    /\ ret = NoCall

\* nothing constructed yet
InitVector == NothingConstructed /\ budget = MaxCalls

NextVector ==
    \/ \E size \in Sizes, value \in Scalars : NewVectorOfSize(size, Num(value))
    \/ \E v \in vectors : NewVectorOfVector(v)
    \/ \E elements \in ArrayLiterals : NewVectorOfLiteral(elements)
    \/ \E a \in callerArrays : NewVectorOfArray(a)
    \/ \E a \in callerArrays, i \in Sizes, x \in Scalars : CallerWrite(a, i, Num(x))
    \/ \E v \in vectors : CallToArray(v)
    \/ \E v \in vectors, index \in Indices : CallGetAt(v, index)
    \/ \E v \in vectors, x \in Scalars, index \in Indices : CallSetAt(v, Num(x), index)
    \/ \E v, vector \in vectors : CallAdd(v, vector)
    \/ \E v \in vectors, scalar \in Scalars : CallMultiply(v, Num(scalar))
    \/ \E v, vector \in vectors : CallScalarProduct(v, vector)
    \/ \E v, vector \in vectors : CallVectorProduct(v, vector)

SpecVector == InitVector /\ [][NextVector]_vars

\* after a = new Vector(la); b = new Vector(lb) for two array literals
InitProduct ==
    /\ \E la, lb \in ArrayLiterals : arrays = <<la, lb>>
    /\ grids = <<>>
    /\ callerArrays = {1, 2}
    /\ callerGrids = {}
    /\ vectors = {1, 2}
    /\ matrices = {}
    /\ ret = NoCall
    /\ budget = MaxProductCalls

NextProduct ==
    \/ \E v, vector \in vectors : CallVectorProduct(v, vector)

SpecProduct == InitProduct /\ [][NextProduct]_vars

\* nothing constructed yet
InitMatrix == NothingConstructed /\ budget = MaxMatrixCalls

NextMatrix ==
    \/ \E elements \in ArrayLiterals : NewVectorOfLiteral(elements)
    \/ \E n \in RowCounts, value \in Values : NewMatrixSquare(n, Num(value))
    \/ \E n \in RowCounts, m \in ColCounts, value \in Values :
            NewMatrixOfSize(n, m, Num(value))
    \/ \E g \in matrices : NewMatrixOfMatrix(g)
    \/ \E v \in vectors : NewMatrixOfVector(v)
    \/ \E rows \in GridLiterals : NewMatrixOfLiteral(rows)
    \/ \E n \in RowCounts : CallIdentity(n)
    \/ \E g \in matrices, i \in RowIndices, j \in ColIndices : CallMatrixGetAt(g, i, j)
    \/ \E g \in matrices, x \in Values, i \in RowIndices, j \in ColIndices :
            CallMatrixSetAt(g, Num(x), i, j)
    \/ \E g \in matrices, values \in ValueLists, indices \in IndexLists :
            CallSetMultiple(g, values, indices)
    \/ \E g, matrix \in matrices : CallMatrixAdd(g, matrix)
    \/ \E g \in matrices, scalar \in Scalars : CallMatrixMultiply(g, Num(scalar))
    \/ \E g, matrix \in matrices : CallMatrixMultiplication(g, matrix)
    \/ \E g \in matrices : CallTranspose(g)

SpecMatrix == InitMatrix /\ [][NextMatrix]_vars

InitIdentity == NothingConstructed /\ budget = MaxIdentityCalls

NextIdentity ==
    \/ \E rows \in GridLiterals : NewMatrixOfLiteral(rows)
    \/ \E n \in ColCounts : CallIdentity(n)
    \/ \E g, matrix \in matrices : CallMatrixMultiplication(g, matrix)

SpecIdentity == InitIdentity /\ [][NextIdentity]_vars

InitCopy == NothingConstructed /\ budget = MaxCopyCalls

NextCopy ==
    \/ \E elements \in ArrayLiterals : NewVectorOfLiteral(elements)
    \/ \E rows \in GridLiterals : NewMatrixOfLiteral(rows)
    \/ \E a \in callerArrays, i \in Sizes, x \in Scalars : CallerWrite(a, i, Num(x))
    \/ \E g \in callerGrids, i \in 0..(MaxRows - 1), j \in 0..MaxCols, x \in Scalars :
            CallerWriteRow(g, i, j, Num(x))
    \/ \E v \in vectors, index \in Indices : CallGetAt(v, index)
    \/ \E g \in matrices, i \in RowIndices, j \in ColIndices : CallMatrixGetAt(g, i, j)

SpecCopy == InitCopy /\ [][NextCopy]_vars

---------------------------------------------------------------------------
(* Claims *)

\* a vector / a matrix as the data model means it: numbers only, rows of one length
Dense(arr) == \A k \in 1..Len(arr) : arr[k].t = "number"
DenseGrid(g) == \A k \in 1..Len(g) : Dense(g[k])
Rectangular(g) == \A k \in 1..Len(g) : Len(g[k]) = Len(g[1])
Max(S) == CHOOSE x \in S : \A y \in S : x >= y

\* C1: a.add(b) fails and returns no vector whenever a.dimension # b.dimension
\* (a shorter or longer than b); for equal dimensions it returns the
\* element-wise sum.
C1_AddChecksDimensions ==
    ret.op = "add" =>
        LET a == ret.arrays0[ret.self]
            b == ret.arrays0[ret.other]
        IN Dense(a) /\ Dense(b) =>
            IF Len(a) # Len(b)
            THEN ret.threw # "" /\ ret.out = 0
            ELSE /\ ret.threw = ""
                 /\ ret.out # 0
                 /\ arrays[ret.out] = [k \in 1..Len(a) |-> Num(a[k].v + b[k].v)]

\* C2: new Matrix(n, value), n >= 1, is the n-by-n matrix whose every element
\* is value, also for value # 0.
C2_SquareFilledWithValue ==
    ret.op = "Matrix(n,value)" /\ ret.i >= 1 =>
        /\ ret.threw = ""
        /\ ret.out # 0
        /\ grids[ret.out] = [r \in 1..ret.i |-> [c \in 1..ret.i |-> ret.x]]

\* C3: w = v.setAt(x, i), i a valid index of a vector v of any dimension >= 1,
\* has v's dimension, holds x at i and v's elements elsewhere; v is unchanged.
C3_SetAtRoundTrip ==
    ret.op = "setAt" =>
        LET v == ret.arrays0[ret.self]
        IN Dense(v) /\ 0 <= ret.i /\ ret.i < Len(v) =>
            /\ ret.threw = ""
            /\ ret.out # 0
            /\ Len(arrays[ret.out]) = Len(v)
            /\ \A k \in 1..Len(v) :
                  arrays[ret.out][k] = IF k = ret.i + 1 THEN ret.x ELSE v[k]
            /\ arrays[ret.self] = v

\* C4: v.toArray() and new Vector(v) hold exactly v's elements, for every
\* dimension >= 0.
C4_ToArrayCopiesElements ==
    ret.op \in {"toArray", "Vector(vector)"} =>
        LET v == ret.arrays0[ret.self]
        IN Dense(v) =>
            /\ ret.threw = ""
            /\ ret.out # 0
            /\ arrays[ret.out] = v

\* C5: a write by the caller to the sequence a Vector or Matrix was
\* constructed from changes no Vector and no Matrix.
C5_CopyOnConstruct ==
    ret.op \in {"elements[i]=x", "rows[i][j]=x"} =>
        /\ \A v \in vectors : arrays[v] = ret.arrays0[v]
        /\ \A g \in matrices : grids[g] = ret.grids0[g]

\* C6: M.transpose() never fails: for every constructed matrix M, also one
\* with zero columns, it returns T with T.n = M.m, T.m = M.n and
\* T[j][i] = M[i][j], leaving M unchanged.
C6_TransposeNeverFails ==
    ret.op = "transpose" =>
        LET M == ret.grids0[ret.self]
        IN Len(M) >= 1 /\ Rectangular(M) /\ DenseGrid(M) =>
            /\ ret.threw = ""
            /\ ret.out # 0
            /\ Len(grids[ret.out]) = Len(M[1])
            /\ \A j \in 1..Len(M[1]) :
                  /\ Len(grids[ret.out][j]) = Len(M)
                  /\ \A i \in 1..Len(M) : grids[ret.out][j][i] = M[i][j]
            /\ grids[ret.self] = M

IdentityGrid(n) == [i \in 1..n |-> [j \in 1..n |-> IF i = j THEN Num(1) ELSE Num(0)]]

\* C7: for every constructed matrix M, of any column count, identity(M.m) is
\* the M.m-by-M.m matrix with 1 on the diagonal and 0 elsewhere, and
\* M.matrixMultiplication(identity(M.m)) equals M.
C7_RightIdentity ==
    /\ ( /\ ret.op = "identity"
         /\ \E g \in matrices :
               /\ Len(grids[g]) >= 1 /\ Rectangular(grids[g]) /\ DenseGrid(grids[g])
               /\ Len(grids[g][1]) = ret.i )
       => /\ ret.threw = ""
          /\ ret.out # 0
          /\ grids[ret.out] = IdentityGrid(ret.i)
    /\ ret.op = "matrixMultiplication" =>
          LET M == ret.grids0[ret.self]
              I == ret.grids0[ret.other]
          IN ( /\ Len(M) >= 1 /\ Rectangular(M) /\ DenseGrid(M)
               /\ I = IdentityGrid(Len(M[1])) )
             => /\ ret.threw = ""
                /\ ret.out # 0
                /\ grids[ret.out] = M

\* C8: M.setMultiple(values, indices), the lists of equal length and every
\* index pair in bounds, returns R of M's shape with R[i][j] = values[k] for
\* the last k with indices[k] = (i, j) and R[i][j] = M[i][j] elsewhere, for
\* every M, also one with a single column; M is unchanged.
C8_SetMultiple ==
    ret.op = "setMultiple" =>
        LET M == ret.grids0[ret.self]
            values == ret.values
            indices == ret.indices
            At(i, j) == {k \in 1..Len(indices) : indices[k] = <<i - 1, j - 1>>}
        IN ( /\ Len(M) >= 1 /\ Rectangular(M) /\ DenseGrid(M)
             /\ Len(values) = Len(indices)
             /\ \A k \in 1..Len(indices) :
                   indices[k][1] < Len(M) /\ indices[k][2] < Len(M[1]) )
           => /\ ret.threw = ""
              /\ ret.out # 0
              /\ Len(grids[ret.out]) = Len(M)
              /\ \A i \in 1..Len(M) :
                    /\ Len(grids[ret.out][i]) = Len(M[1])
                    /\ \A j \in 1..Len(M[1]) :
                          grids[ret.out][i][j] =
                              IF At(i, j) # {} THEN values[Max(At(i, j))] ELSE M[i][j]
              /\ grids[ret.self] = M

\* C9: a.vectorProduct(b) fails unless both dimensions are 3; when both are 3
\* it returns [a1*b2 - a2*b1, a0*b2 - a2*b0, a0*b1 - a1*b0], so that
\* [1,0,0] x [0,1,0] = [0,0,1]; neither operand is changed.
C9_VectorProduct ==
    ret.op = "vectorProduct" =>
        LET a == ret.arrays0[ret.self]
            b == ret.arrays0[ret.other]
        IN /\ Len(a) # 3 \/ Len(b) # 3 =>
                ret.threw = "Both vectors must have 3 dimensions!" /\ ret.out = 0
           /\ Len(a) = 3 /\ Len(b) = 3 =>
                /\ ret.threw = ""
                /\ ret.out # 0
                /\ arrays[ret.out] =
                      << Num(a[2].v * b[3].v - a[3].v * b[2].v),
                         Num(a[1].v * b[3].v - a[3].v * b[1].v),
                         Num(a[1].v * b[2].v - a[2].v * b[1].v) >>
           /\ a = <<Num(1), Num(0), Num(0)>> /\ b = <<Num(0), Num(1), Num(0)>> =>
                ret.out # 0 /\ arrays[ret.out] = <<Num(0), Num(0), Num(1)>>
           /\ arrays[ret.self] = a
           /\ arrays[ret.other] = b

\* a product whose middle component is positive, where the textbook formula gives -1
C9_Witness ==
    /\ ret.op = "vectorProduct"
    /\ ret.threw = ""
    /\ ret.arrays0[ret.self] = <<Num(1), Num(0), Num(0)>>
    /\ ret.arrays0[ret.other] = <<Num(0), Num(0), Num(1)>>
    /\ arrays[ret.out] = <<Num(0), Num(1), Num(0)>>

\* C10: every Matrix that exists after any sequence of constructor calls and
\* operations has every row as long as its first row, and a 2D sequence with
\* rows of unequal length is rejected at construction.
C10_RowsHaveEqualLength ==
    /\ \A g \in matrices : Rectangular(grids[g])
    /\ ret.op = "Matrix(rows)" /\ ~Rectangular(grids[ret.self]) =>
          ret.threw # "" /\ ret.out = 0

=============================================================================
